---- MODULE Spec2Model ----
(***************************************************************************)
(* Model of the C++ game-code improver: the line-pattern rule engine       *)
(* (code_analyzer.analyze_cpp_code), the analysis formatter, the response  *)
(* extractor, the diff renderer and the suggestion entry point             *)
(* (code_suggester.generate_code_suggestions), and the session state of   *)
(* the page (app.py).                                                      *)
(*                                                                         *)
(* Text is modelled at token granularity: a string is a sequence of        *)
(* tokens, "\n" being the newline token and " " a run of blanks.  Two      *)
(* adjacent word tokens of a line are separated by blanks in the text; a   *)
(* substring test `'x' in line` is a test on the tokens of the line        *)
(* (Contains), a regular expression is a test on adjacent tokens.          *)
(***************************************************************************)
EXTENDS Integers, Sequences, FiniteSets, TLC

\* ------------------------------------------------------------------ bounds
\* lines of one analysed code text
MaxLines == 3
\* lines of each of the two snippets that are concatenated
MaxSnippet == 2
\* tokens of a response text of the completion collaborator
MaxResponse == 6
\* tokens of each of the two texts of a diff
MaxDiffLen == 3

\* the look-back windows of the three context detectors
SqrtWindow == 5
StringWindow == 10
NullWindow == 3

\* ------------------------------------------------------------------ text
Max(a, b) == IF a >= b THEN a ELSE b

NL == "\n"

\* The fence tokens of a response text; ''' stands for three backquotes.
\* OpenFence is the opening of a cpp-tagged block with its newline.
OpenFence == "'''cpp\n"
CloseFence == "'''"

\* str.isspace of a token
IsSpace(t) == t \in {" ", NL}

\* tokens that consist of word characters only (\w+)
WordTokens ==
  {"int", "float", "double", "bool", "char", "ptr", "arr", "buf", "x", "y",
   "p", "q", "s", "v", "k", "i", "0", "10", "new", "for", "while", "if",
   "sqrt", "update", "render", "nullptr", "NULL", "const", "class", "struct",
   "enum"}

\* tokens made of digits (\d+)
DigitTokens == {"0", "10"}

\* decimal literals with an optional f suffix (\d*\.\d+f?)
FloatTokens == {"0.5f"}

\* the last characters of the token are word characters
EndsWithWord(t) == t \in WordTokens \cup {"std::string", "std::unique_ptr"}

\* (token, pattern): the pattern is a proper substring of the token
SubstringPairs ==
  {<<"std::string", "std::">>, <<"std::unique_ptr", "std::">>,
   <<"std::unique_ptr", "unique_ptr">>, <<"==", "=">>, <<"!=", "=">>,
   <<"+=", "=">>, <<"\"hp\"", "\"">>, <<"nullptr", "ptr">>,
   <<"struct", "str">>}

\* `pat in line` for a line of text: some token holds the pattern
Contains(line, pat) ==
  \E k \in 1..Len(line) : line[k] = pat \/ <<line[k], pat>> \in SubstringPairs

\* `pat in lines` for a LIST of lines: some element EQUALS the pattern
InList(lines, pat) == \E k \in 1..Len(lines) : lines[k] = <<pat>>

\* the tokens of a line that are not blanks
Sig(line) == SelectSeq(line, LAMBDA t : ~IsSpace(t))

\* str.strip(): leading and trailing whitespace removed
RECURSIVE LStrip(_)
LStrip(s) == IF s # <<>> /\ IsSpace(Head(s)) THEN LStrip(Tail(s)) ELSE s

\* (the newline that ends an opening fence is trailing whitespace too)
RECURSIVE RStrip(_)
RStrip(s) ==
  IF s = <<>> THEN s
  ELSE IF IsSpace(s[Len(s)]) THEN RStrip(SubSeq(s, 1, Len(s) - 1))
  ELSE IF s[Len(s)] = OpenFence THEN SubSeq(s, 1, Len(s) - 1) \o <<"'''cpp">>
  ELSE s

Strip(s) == RStrip(LStrip(s))

\* str.split('\n'): the pieces between newline tokens, always at least one
RECURSIVE SplitFrom(_, _)
SplitFrom(s, cur) ==
  IF s = <<>> THEN <<cur>>
  ELSE IF Head(s) = NL THEN <<cur>> \o SplitFrom(Tail(s), <<>>)
  ELSE SplitFrom(Tail(s), Append(cur, Head(s)))

Split(s) == SplitFrom(s, <<>>)

\* '\n'.join(lines)
RECURSIVE Join(_)
Join(ls) ==
  IF ls = <<>> THEN <<>>
  ELSE IF Len(ls) = 1 THEN ls[1]
  ELSE ls[1] \o <<NL>> \o Join(Tail(ls))

\* ------------------------------------------------------------------ rule engine
\* the keys of the analysis dict, in declaration order
Categories ==
  <<"performance_issues", "memory_management", "code_style", "modern_cpp",
    "game_specific", "potential_bugs">>

primitive_types == <<"int", "float", "double", "bool", "char">>

Suggestion(issue) ==
  CASE issue = "Raw pointer usage" -> "Consider using smart pointers"
    [] issue = "C-style array usage" -> "Consider using std::array or std::vector"
    [] issue = "Index-based loop over container" -> "Consider using range-based for loop"
    [] issue = "Expensive sqrt operation in loop" -> "Consider using squared magnitude"
    [] issue = "String operations in performance-critical code" -> "Move string manipulations outside of update/render loops"
    [] issue = "Direct floating-point comparison" -> "Use epsilon-based comparison"
    [] issue = "Magic number usage" -> "Define named constants for magic numbers"
    [] issue = "Uninitialized primitive variable" -> "Initialize variables at declaration"
    [] issue = "Potential null pointer dereference" -> "Add null check before dereferencing pointers"

\* a finding that keeps the index of enumerate as its line number
FindingZeroBased(i, line, issue) ==
  [line |-> i, code |-> Strip(line), issue |-> issue,
   suggestion |-> Suggestion(issue)]

\* the dict appended for lines[i] (i counts from 0, as enumerate does)
Finding(i, line, issue) ==
  [line |-> i + 1, code |-> Strip(line), issue |-> issue,
   suggestion |-> Suggestion(issue)]

\* a window that also takes the n lines after lines[i]
WindowAround(lines, i, n) ==
  SubSeq(lines, (IF i - n > 0 THEN i - n ELSE 0) + 1,
         IF i + 1 + n < Len(lines) THEN i + 1 + n ELSE Len(lines))

\* lines[max(0, i-n):i], the n lines before lines[i]
Window(lines, i, n) == SubSeq(lines, Max(0, i - n) + 1, i)

\* A loop `for i, line in enumerate(lines)` that appends to one list is the
\* list, for n = 1..len(lines) and i = n - 1, of what its body appends for
\* lines[i], flattened: the lists of a list of lists, appended in order
RECURSIVE Flatten(_)
Flatten(ss) == IF ss = <<>> THEN <<>> ELSE Head(ss) \o Flatten(Tail(ss))

\* r'\b(\w+)\s*\*\s*(\w+)\s*='
raw_pointer_pattern(line) ==
  LET s == Sig(line) IN
  \E k \in 1..(Len(s) - 3) :
    /\ EndsWithWord(s[k])
    /\ s[k + 1] = "*"
    /\ s[k + 2] \in WordTokens
    /\ s[k + 3] \in {"=", "=="}

\* r'\b(\w+)\s+(\w+)\[(\d+)\]'
c_array_pattern(line) ==
  LET s == Sig(line) IN
  \E k \in 1..(Len(s) - 4) :
    /\ EndsWithWord(s[k])
    /\ s[k + 1] \in WordTokens
    /\ s[k + 2] = "["
    /\ s[k + 3] \in DigitTokens
    /\ s[k + 4] = "]"

\* r'(==|!=)\s*\d*\.\d+f?'
float_compare_pattern(line) ==
  LET s == Sig(line) IN
  \E k \in 1..(Len(s) - 1) : s[k] \in {"==", "!="} /\ s[k + 1] \in FloatTokens

\* r'[^\.]\d+\.\d+f?': a literal with some character other than a dot before
\* its integer part (the literals of the model have a one-digit integer part)
magic_number_pattern(line) ==
  \E k \in 2..Len(line) : line[k] \in FloatTokens

\* r'const\s+float'
const_float_pattern(line) ==
  LET s == Sig(line) IN
  \E k \in 1..(Len(s) - 1) : s[k] = "const" /\ s[k + 1] = "float"

\* r'(\w+)\s+(\w+);'
declaration_pattern(line) ==
  LET s == Sig(line) IN
  \E k \in 1..(Len(s) - 2) :
    EndsWithWord(s[k]) /\ s[k + 1] \in WordTokens /\ s[k + 2] \in {";", "; i < "}

\* rf'{type_name}\s+\w+;'
typed_declaration_pattern(type_name, line) ==
  LET s == Sig(line) IN
  \E k \in 1..(Len(s) - 2) :
    s[k] = type_name /\ s[k + 1] \in WordTokens /\ s[k + 2] \in {";", "; i < "}

RawPointerFindings(lines) ==
  Flatten([n \in 1..Len(lines) |-> LET i == n - 1 IN
    IF /\ raw_pointer_pattern(lines[i + 1])
       /\ ~Contains(lines[i + 1], "std::")
       /\ ~Contains(lines[i + 1], "shared_ptr")
       /\ ~Contains(lines[i + 1], "unique_ptr")
    THEN <<Finding(i, lines[i + 1], "Raw pointer usage")>> ELSE <<>>])

CArrayFindings(lines) ==
  Flatten([n \in 1..Len(lines) |-> LET i == n - 1 IN
    IF c_array_pattern(lines[i + 1]) /\ ~Contains(lines[i + 1], "char")
    THEN <<Finding(i, lines[i + 1], "C-style array usage")>> ELSE <<>>])

IndexLoopFindings(lines) ==
  Flatten([n \in 1..Len(lines) |-> LET i == n - 1 IN
    IF /\ Contains(lines[i + 1], "for")
       /\ Contains(lines[i + 1], "; i < ")
       /\ Contains(lines[i + 1], ".size()")
    THEN <<Finding(i, lines[i + 1], "Index-based loop over container")>>
    ELSE <<>>])

SqrtFinding(lines, i) ==
  IF /\ Contains(lines[i + 1], "sqrt")
     /\ \/ InList(Window(lines, i, SqrtWindow), "for")
        \/ InList(Window(lines, i, SqrtWindow), "while")
  THEN <<Finding(i, lines[i + 1], "Expensive sqrt operation in loop")>>
  ELSE <<>>

StringFinding(lines, i) ==
  IF /\ \/ Contains(lines[i + 1], "std::string")
        \/ Contains(lines[i + 1], "+=") /\ Contains(lines[i + 1], "\"")
     /\ \/ InList(Window(lines, i, StringWindow), "update")
        \/ InList(Window(lines, i, StringWindow), "render")
  THEN <<Finding(i, lines[i + 1],
                 "String operations in performance-critical code")>>
  ELSE <<>>

PerformanceFindings(lines) ==
  Flatten([n \in 1..Len(lines) |-> LET i == n - 1 IN
    SqrtFinding(lines, i) \o StringFinding(lines, i)])

FloatCompareFindings(lines) ==
  Flatten([n \in 1..Len(lines) |-> LET i == n - 1 IN
    IF float_compare_pattern(lines[i + 1])
    THEN <<Finding(i, lines[i + 1], "Direct floating-point comparison")>>
    ELSE <<>>])

MagicNumberFindings(lines) ==
  Flatten([n \in 1..Len(lines) |-> LET i == n - 1 IN
    IF /\ magic_number_pattern(lines[i + 1])
       /\ ~const_float_pattern(lines[i + 1])
       /\ ~Contains(lines[i + 1], "#define")
    THEN <<Finding(i, lines[i + 1], "Magic number usage")>> ELSE <<>>])

\* one finding per primitive type whose declaration the line holds
UninitializedFindings(lines, i) ==
  IF /\ declaration_pattern(lines[i + 1])
     /\ ~Contains(lines[i + 1], "=")
     /\ ~Contains(lines[i + 1], "class")
     /\ ~Contains(lines[i + 1], "struct")
     /\ ~Contains(lines[i + 1], "enum")
  THEN LET RECURSIVE each(_)
           each(t) ==
             IF t > Len(primitive_types) THEN <<>>
             ELSE (IF typed_declaration_pattern(primitive_types[t], lines[i + 1])
                   THEN <<Finding(i, lines[i + 1],
                                  "Uninitialized primitive variable")>>
                   ELSE <<>>) \o each(t + 1)
       IN each(1)
  ELSE <<>>

NullDerefFinding(lines, i) ==
  IF /\ Contains(lines[i + 1], "->")
     /\ ~InList(Window(lines, i, NullWindow), "if")
     /\ ~InList(Window(lines, i, NullWindow), "nullptr")
     /\ ~InList(Window(lines, i, NullWindow), "NULL")
  THEN <<Finding(i, lines[i + 1], "Potential null pointer dereference")>>
  ELSE <<>>

\* the two checks run as two successive loops, the null check first
PotentialBugFindingsTwoLoops(lines) ==
  Flatten([n \in 1..Len(lines) |-> LET i == n - 1 IN
    NullDerefFinding(lines, i)])
  \o Flatten([n \in 1..Len(lines) |-> LET i == n - 1 IN
    UninitializedFindings(lines, i)])

PotentialBugFindings(lines) ==
  Flatten([n \in 1..Len(lines) |-> LET i == n - 1 IN
    UninitializedFindings(lines, i) \o NullDerefFinding(lines, i)])

\* modern_cpp is fed by two successive loops over the lines
ModernCppFindings(lines) == CArrayFindings(lines) \o IndexLoopFindings(lines)

analyze_cpp_code(text) ==
  LET lines == Split(text) IN
  [performance_issues |-> PerformanceFindings(lines),
   memory_management  |-> RawPointerFindings(lines),
   code_style         |-> MagicNumberFindings(lines),
   modern_cpp         |-> ModernCppFindings(lines),
   game_specific      |-> FloatCompareFindings(lines),
   potential_bugs     |-> PotentialBugFindings(lines)]

\* ------------------------------------------------------------------ formatter
\* category.replace('_', ' ').title()
Title(category) ==
  CASE category = "performance_issues" -> "Performance Issues"
    [] category = "memory_management" -> "Memory Management"
    [] category = "code_style" -> "Code Style"
    [] category = "modern_cpp" -> "Modern Cpp"
    [] category = "game_specific" -> "Game Specific"
    [] category = "potential_bugs" -> "Potential Bugs"

\* the keys of a dict in insertion order: the declaration order of the keys it has
Keys(a) == SelectSeq(Categories, LAMBDA c : c \in DOMAIN a)

\* The lines of the formatted text, each by its kind and its fields:
\*   heading     "## {category_name}"
\*   issue       "- Line {line}: {issue}"
\*   code        "  Code: {code}"         (or "  - Current: {code}" quoted)
\*   suggestion  "  Suggestion: {suggestion}"
\*   blank       ""
HeadingLine(category) == [kind |-> "heading", text |-> Title(category)]

\* the three lines appended for one issue
PromptIssueLines(issue) ==
  << [kind |-> "issue", line |-> issue.line, issue |-> issue.issue],
     [kind |-> "code", code |-> issue.code],
     [kind |-> "suggestion", text |-> issue.suggestion] >>

RECURSIVE PromptIssues(_)
PromptIssues(issues) ==
  IF issues = <<>> THEN <<>>
  ELSE PromptIssueLines(Head(issues)) \o PromptIssues(Tail(issues))

\* a heading for every category, with or without issues
PromptCategoryAlways(category, issues) ==
  <<HeadingLine(category)>> \o PromptIssues(issues) \o <<[kind |-> "blank"]>>

\* what one category adds to result: nothing when it has no issue
PromptCategory(category, issues) ==
  IF issues # <<>>
  THEN <<HeadingLine(category)>> \o PromptIssues(issues) \o <<[kind |-> "blank"]>>
  ELSE <<>>

\* The text is the list of its lines: "\n".join(result) separates them, and no
\* line holds a newline (the code field is a stripped line of the split text).
format_analysis_for_prompt(a) ==
  LET ks == Keys(a)
      RECURSIVE go(_)
      go(n) == IF n > Len(ks) THEN <<>>
               ELSE PromptCategory(ks[n], a[ks[n]]) \o go(n + 1)
  IN go(1)

SuggestIssueLines(issue) ==
  << [kind |-> "issue", line |-> issue.line, issue |-> issue.issue],
     [kind |-> "code", code |-> issue.code],
     [kind |-> "suggestion", text |-> issue.suggestion] >>

RECURSIVE SuggestIssues(_)
SuggestIssues(issues) ==
  IF issues = <<>> THEN <<>>
  ELSE SuggestIssueLines(Head(issues)) \o SuggestIssues(Tail(issues))

SuggestCategory(category, issues) ==
  IF issues # <<>>
  THEN <<HeadingLine(category)>> \o SuggestIssues(issues)
  ELSE <<>>

\* no detector sets a "replacement" key, so code_changes stays empty
suggest_improvements(a, text) ==
  LET ks == Keys(a)
      RECURSIVE go(_)
      go(n) == IF n > Len(ks) THEN <<>>
               ELSE SuggestCategory(ks[n], a[ks[n]]) \o go(n + 1)
  IN [code_changes |-> <<>>, explanations |-> go(1)]

\* ------------------------------------------------------------------ response extractor
\* the token starts with three backquotes
IsFence(t) == t \in {OpenFence, CloseFence}

\* what is left of a fence token after its three backquotes
AfterFence(t) == IF t = OpenFence THEN <<"cpp", NL>> ELSE <<>>

\* the first three backquotes after position i, 0 when there are none
FirstFenceAfter(r, i) ==
  LET S == {j \in (i + 1)..Len(r) : IsFence(r[j])}
  IN IF S = {} THEN 0 ELSE CHOOSE j \in S : \A k \in S : j <= k

\* re.search(code_pattern, text[from:], re.DOTALL) for the pattern
\* '''cpp\n(.*?)''': the leftmost opening fence that some later backquotes
\* close, matched up to the first of them (non-greedy); <<0, 0>> when nothing
\* matches
SearchFrom(r, from) ==
  LET S == {i \in from..Len(r) : r[i] = OpenFence /\ FirstFenceAfter(r, i) # 0}
  IN IF S = {} THEN <<0, 0>>
     ELSE LET i == CHOOSE i \in S : \A k \in S : i <= k
          IN <<i, FirstFenceAfter(r, i)>>

\* re.sub(code_pattern, "", text, flags=re.DOTALL): every match found scanning
\* on from the end of the match before is deleted
RECURSIVE SubFrom(_, _)
SubFrom(r, from) ==
  LET m == SearchFrom(r, from) IN
  IF m[1] = 0 THEN SubSeq(r, from, Len(r))
  ELSE SubSeq(r, from, m[1] - 1) \o AfterFence(r[m[2]]) \o SubFrom(r, m[2] + 1)

\* re.sub with count=1: the first match alone is deleted
re_sub_first(r) ==
  LET m == SearchFrom(r, 1) IN
  IF m[1] = 0 THEN r
  ELSE SubSeq(r, 1, m[1] - 1) \o AfterFence(r[m[2]]) \o SubSeq(r, m[2] + 1, Len(r))

re_sub(r) == SubFrom(r, 1)

\* code_match.group(1)
Group1(r, m) == SubSeq(r, m[1] + 1, m[2] - 1)

\* an extractor that forgets to strip the code
extract_without_strip(response) ==
  LET code_match == SearchFrom(response, 1) IN
  IF code_match[1] # 0
  THEN <<Group1(response, code_match), Strip(re_sub(response))>>
  ELSE <<<<>>, response>>

extract_code_and_explanation(response) ==
  LET code_match == SearchFrom(response, 1) IN
  IF code_match[1] # 0
  THEN <<Strip(Group1(response, code_match)), Strip(re_sub(response))>>
  ELSE <<<<>>, response>>

\* ------------------------------------------------------------------ diff renderer
\* str.splitlines(): the lines of the text, without a last empty piece
splitlines(s) ==
  LET p == Split(s) IN
  IF p[Len(p)] = <<>> THEN SubSeq(p, 1, Len(p) - 1) ELSE p

RECURSIVE CommonPrefix(_, _)
CommonPrefix(a, b) ==
  IF a # <<>> /\ b # <<>> /\ Head(a) = Head(b)
  THEN 1 + CommonPrefix(Tail(a), Tail(b)) ELSE 0

Reverse(a) == [k \in 1..Len(a) |-> a[Len(a) + 1 - k]]

Rows(tag, ls) == [k \in 1..Len(ls) |-> [tag |-> tag, text |-> ls[k]]]

\* The rows of difflib.HtmlDiff's table for two line lists: the lines the two
\* lists share at their start and at their end are "equal" rows, the lines of
\* fromlines between them are "sub" rows (diff_sub), those of tolines "add"
\* rows (diff_add); the library's pairing of similar lines into changed rows is
\* not modelled.  With context=True a table without a difference holds the one
\* row "No Differences Found" (the texts of the model are shorter than the
\* context of five lines, so no equal row is cut).
make_table(fromlines, tolines) ==
  LET p == CommonPrefix(fromlines, tolines)
      a == SubSeq(fromlines, p + 1, Len(fromlines))
      b == SubSeq(tolines, p + 1, Len(tolines))
      q == CommonPrefix(Reverse(a), Reverse(b))
      del == SubSeq(a, 1, Len(a) - q)
      ins == SubSeq(b, 1, Len(b) - q)
  IN IF del = <<>> /\ ins = <<>> THEN <<[tag |-> "nodiff", text |-> <<>>]>>
     ELSE Rows("equal", SubSeq(fromlines, 1, p)) \o Rows("sub", del)
          \o Rows("add", ins) \o Rows("equal", SubSeq(a, Len(a) - q + 1, Len(a)))

\* a renderer that splits the improved code on "\n" instead of splitlines()
generate_diff_split(original_code, improved) ==
  <<[tag |-> "header", text |-> <<"Original Code", "Improved Code">>]>>
  \o make_table(splitlines(original_code), Split(improved))

\* make_file: the page with its column headers, then the table
generate_diff(original_code, improved) ==
  <<[tag |-> "header", text |-> <<"Original Code", "Improved Code">>]>>
  \o make_table(splitlines(original_code), splitlines(improved))

\* ------------------------------------------------------------------ inputs
\* all sequences over S of a length in lo..hi
SeqsOf(S, lo, hi) == UNION {[1..n -> S] : n \in lo..hi}

\* the lines the analysed texts are made of
LineSet ==
  { <<>>,
    <<"int", "*", "ptr", "=", "q", ";">>,
    <<"std::string", "*", "s", "=", "q", ";">>,
    <<"int", "arr", "[", "10", "]", ";">>,
    <<"for", "(", "int", "i", "=", "0", "; i < ", "v", ".size()", ")">>,
    <<"for">>,
    <<"update">>,
    <<"s", "+=", "\"hp\"", "+", "sqrt", "(", "x", ")", ";">>,
    <<"if", "(", "x", "==", "0.5f", ")">>,
    <<"int", "x", ";", "char", "y", ";">>,
    <<" ", "p", "->", "x", ";">>,
    <<"if">>,
    <<"char", "buf", "[", "10", "]", ";">>,
    <<"const", "float", "k", "=", "0.5f", ";">>,
    <<"while">>,
    <<"render">> }

AnalysisCodes == {Join(ls) : ls \in SeqsOf(LineSet, 1, MaxLines)}

\* the lines of the snippets that are concatenated
ConcatLines ==
  { <<"int", "*", "ptr", "=", "q", ";">>,
    <<"x", "=", "0.5f", ";">>,
    <<"for">>,
    <<"sqrt", "(", "x", ")">>,
    <<"update">>,
    <<"std::string", "s", ";">>,
    <<"if">>,
    <<"p", "->", "x", ";">> }

Snippets == {Join(ls) : ls \in SeqsOf(ConcatLines, 1, MaxSnippet)}

\* the code and the request of a call of generate_code_suggestions
PipelineCodes ==
  { <<>>, <<"int", "*", "ptr", "=", "q", ";", NL, "p", "->", "x", ";">> }
Prompts == {"", "Optimize for performance"}

\* os.environ.get("GROQ_API_KEY"): <<>> is None (unset), else <<value>>
ApiKeys == {<<>>, <<"">>, <<"gsk_key">>}

\* what the completion collaborator answers
ResponseTokens == {OpenFence, CloseFence, NL, "CODE", "text"}
ResponseTexts == SeqsOf(ResponseTokens, 0, MaxResponse)

\* the exceptions the collaborator call ends with
CollaboratorErrors ==
  { [class |-> "APIConnectionError", message |-> "Connection error."],
    [class |-> "RateLimitError", message |-> "Rate limit reached"],
    [class |-> "AuthenticationError", message |-> "Invalid API Key"] }

\* the classes that derive from Exception
ExceptionClasses ==
  {"ValueError", "TypeError", "APIConnectionError", "RateLimitError",
   "AuthenticationError"}

\* the two texts of a diff
DiffTexts == SeqsOf({"a", "b", NL}, 0, MaxDiffLen)

\* ------------------------------------------------------------------ state
VARIABLES
  code,           \* the code argument (original_code)
  prompt,         \* the improvement request
  api_key,        \* the value of GROQ_API_KEY in the environment
  pc,             \* where the call stands
  requests,       \* completion requests issued to the collaborator
  response_text,  \* response.choices[0].message.content
  analysis,       \* the dict analyze_cpp_code returned
  analysis_text,  \* the formatted analysis
  suggestions,    \* the explanations list of suggest_improvements
  improved_code,
  explanation,
  diff,
  returned,       \* the tuple handed back to the caller, <<>> before
  raised,         \* the exception that left the call, <<>> when none
  error,          \* the exception raised inside the try block, <<>> when none
  parts,          \* the two snippets <<A, B>>
  part_analysis,  \* their analyses <<analyze(A), analyze(B)>>
  session_state   \* st.session_state of the page

vars ==
  <<code, prompt, api_key, pc, requests, response_text, analysis,
    analysis_text, suggestions, improved_code, explanation, diff, returned,
    raised, error, parts, part_analysis, session_state>>

callVars == <<code, prompt, api_key>>
concatVars == <<parts, part_analysis>>
localVars == <<improved_code, explanation, diff>>
uiVars == <<session_state>>

\* st.session_state after the page's first run ("" and {} are <<>>)
InitialSession ==
  [original_code |-> <<>>, improved_code |-> <<>>, explanation |-> <<>>,
   diff_html |-> <<>>, analysis_results |-> <<>>, integrated |-> FALSE,
   integration_history |-> <<>>]

\* everything but the inputs, before the call
Fresh ==
  /\ requests = 0
  /\ response_text = <<>>
  /\ analysis = <<>>
  /\ analysis_text = <<>>
  /\ suggestions = <<>>
  /\ explanation = <<>>
  /\ diff = <<>>
  /\ returned = <<>>
  /\ raised = <<>>
  /\ error = <<>>
  /\ part_analysis = <<>>
  /\ session_state = InitialSession

\* ------------------------------------------------------------------ generate_code_suggestions
\* bool(api_key)
Truthy(key) == key # <<>> /\ key[1] # ""

\* an except clause that names ValueError alone
CatchesValueErrorOnly(e) == e.class = "ValueError"

\* `except Exception as e` takes the exception
Catches(e) == e.class \in ExceptionClasses

\* the tuple of the except clause
Degraded(e) == <<code, <<"Error generating suggestions: ", e.message>>, <<>>>>

\* an exception raised inside the try block
Handle(e) ==
  /\ pc' = "done"
  /\ error' = <<e>>
  /\ IF Catches(e)
     THEN returned' = Degraded(e) /\ UNCHANGED raised
     ELSE raised' = <<e>> /\ UNCHANGED returned

Init ==
  /\ code \in PipelineCodes
  /\ prompt \in Prompts
  /\ api_key \in ApiKeys
  /\ pc = "start"
  /\ improved_code = <<>>
  /\ parts = <<>>
  /\ Fresh

\* analysis = analyze_cpp_code(code); analysis_text = format_analysis_for_prompt(analysis)
LocalAnalysis ==
  /\ pc = "start"
  /\ analysis' = analyze_cpp_code(code)
  /\ analysis_text' = format_analysis_for_prompt(analysis')
  /\ pc' = "try"
  /\ UNCHANGED <<uiVars, callVars, concatVars, localVars, requests, response_text,
                 suggestions, returned, raised, error>>

\* if not api_key: raise ValueError(...)
MissingKey ==
  /\ pc = "try"
  /\ ~Truthy(api_key)
  /\ Handle([class |-> "ValueError",
             message |-> "GROQ_API_KEY environment variable is not set"])
  /\ UNCHANGED <<uiVars, callVars, concatVars, localVars, requests, response_text,
                 analysis, analysis_text, suggestions>>

\* client.chat.completions.create(...) is called
CreateCompletion ==
  /\ pc = "try"
  /\ Truthy(api_key)
  /\ requests' = requests + 1
  /\ pc' = "waiting"
  /\ UNCHANGED <<uiVars, callVars, concatVars, localVars, response_text, analysis,
                 analysis_text, suggestions, returned, raised, error>>

\* the call returns a completion with a text
CompletionReturns ==
  /\ pc = "waiting"
  /\ \E text \in ResponseTexts : response_text' = text
  /\ pc' = "extract"
  /\ UNCHANGED <<uiVars, callVars, concatVars, localVars, requests, analysis,
                 analysis_text, suggestions, returned, raised, error>>

\* the call returns a completion whose content is None: re.search raises
CompletionReturnsNone ==
  /\ pc = "waiting"
  /\ Handle([class |-> "TypeError",
             message |-> "expected string or bytes-like object"])
  /\ UNCHANGED <<uiVars, callVars, concatVars, localVars, requests, response_text,
                 analysis, analysis_text, suggestions>>

\* a failed call that is tried again
CompletionFailsRetry ==
  /\ pc = "waiting"
  /\ pc' = "try"
  /\ UNCHANGED <<uiVars, callVars, concatVars, localVars, requests, response_text,
                 analysis, analysis_text, suggestions, returned, raised, error>>

\* the call raises
CompletionFails ==
  /\ pc = "waiting"
  /\ \E e \in CollaboratorErrors : Handle(e)
  /\ UNCHANGED <<uiVars, callVars, concatVars, localVars, requests, response_text,
                 analysis, analysis_text, suggestions>>

\* improved_code, explanation = extract_code_and_explanation(response_text)
Extract ==
  /\ pc = "extract"
  /\ improved_code' = extract_code_and_explanation(response_text)[1]
  /\ explanation' = extract_code_and_explanation(response_text)[2]
  /\ pc' = "diff"
  /\ UNCHANGED <<uiVars, callVars, concatVars, diff, requests, response_text, analysis,
                 analysis_text, suggestions, returned, raised, error>>

\* diff = generate_diff(code, improved_code); return improved_code, explanation, diff
DiffAndReturn ==
  /\ pc = "diff"
  /\ diff' = generate_diff(code, improved_code)
  /\ returned' = <<improved_code, explanation, diff'>>
  /\ pc' = "done"
  /\ UNCHANGED <<uiVars, callVars, concatVars, improved_code, explanation, requests,
                 response_text, analysis, analysis_text, suggestions, raised, error>>

Next ==
  \/ LocalAnalysis
  \/ MissingKey
  \/ CreateCompletion
  \/ CompletionReturns
  \/ CompletionReturnsNone
  \/ CompletionFails
  \/ Extract
  \/ DiffAndReturn

Spec == Init /\ [][Next]_vars

\* ------------------------------------------------------------------ the rule engine alone
InitAnalyze ==
  /\ code \in AnalysisCodes
  /\ prompt = ""
  /\ api_key = <<>>
  /\ pc = "start"
  /\ improved_code = <<>>
  /\ parts = <<>>
  /\ Fresh

AnalyzeCode ==
  /\ pc = "start"
  /\ analysis' = analyze_cpp_code(code)
  /\ pc' = "analyzed"
  /\ UNCHANGED <<uiVars, callVars, concatVars, localVars, requests, response_text,
                 analysis_text, suggestions, returned, raised, error>>

FormatAnalysis ==
  /\ pc = "analyzed"
  /\ analysis_text' = format_analysis_for_prompt(analysis)
  /\ pc' = "formatted"
  /\ UNCHANGED <<uiVars, callVars, concatVars, localVars, requests, response_text,
                 analysis, suggestions, returned, raised, error>>

SuggestImprovements ==
  /\ pc = "formatted"
  /\ suggestions' = suggest_improvements(analysis, code).explanations
  /\ pc' = "suggested"
  /\ UNCHANGED <<uiVars, callVars, concatVars, localVars, requests, response_text,
                 analysis, analysis_text, returned, raised, error>>

NextAnalyze == AnalyzeCode \/ FormatAnalysis \/ SuggestImprovements

SpecAnalyze == InitAnalyze /\ [][NextAnalyze]_vars

\* ------------------------------------------------------------------ two snippets and their concatenation
InitConcat ==
  /\ parts \in Snippets \X Snippets
  /\ code = <<>>
  /\ prompt = ""
  /\ api_key = <<>>
  /\ pc = "start"
  /\ improved_code = <<>>
  /\ Fresh

AnalyzeParts ==
  /\ pc = "start"
  /\ part_analysis' = <<analyze_cpp_code(parts[1]), analyze_cpp_code(parts[2])>>
  /\ pc' = "parts"
  /\ UNCHANGED <<uiVars, callVars, parts, localVars, requests, response_text, analysis,
                 analysis_text, suggestions, returned, raised, error>>

\* B starts on the line after the last line of A
AnalyzeConcatenation ==
  /\ pc = "parts"
  /\ code' = parts[1] \o <<NL>> \o parts[2]
  /\ analysis' = analyze_cpp_code(code')
  /\ pc' = "whole"
  /\ UNCHANGED <<uiVars, prompt, api_key, concatVars, localVars, requests,
                 response_text, analysis_text, suggestions, returned, raised, error>>

NextConcat == AnalyzeParts \/ AnalyzeConcatenation

SpecConcat == InitConcat /\ [][NextConcat]_vars

\* ------------------------------------------------------------------ the diff renderer alone
InitDiff ==
  /\ code \in DiffTexts
  /\ improved_code \in DiffTexts
  /\ prompt = ""
  /\ api_key = <<>>
  /\ pc = "start"
  /\ parts = <<>>
  /\ Fresh

RenderDiff ==
  /\ pc = "start"
  /\ diff' = generate_diff(code, improved_code)
  /\ pc' = "rendered"
  /\ UNCHANGED <<uiVars, callVars, concatVars, improved_code, explanation, requests,
                 response_text, analysis, analysis_text, suggestions, returned,
                 raised, error>>

NextDiff == RenderDiff

SpecDiff == InitDiff /\ [][NextDiff]_vars

\* ------------------------------------------------------------------ the page (app.py)
\* integrations the history holds at most
MaxHistory == 2

\* what the user types into the "Paste your C++ code here" text area
TypedCodes == { <<>>, <<"int", "*", "ptr", "=", "q", ";">> }

\* the selectbox entries and the texts they load; the two example files are
\* stood for by two short texts
example_files ==
  [name \in {"None", "Game Physics System", "Entity Component System"} |->
     CASE name = "None" -> <<>>
       [] name = "Game Physics System" -> <<"int", "arr", "[", "10", "]", ";">>
       [] OTHER -> <<"for", NL, "sqrt", "(", "x", ")">>]

\* what the completion collaborator answers to the page's request
PageResponses ==
  { <<OpenFence, "CODE", NL, CloseFence, NL, "text">>, <<"text">> }

\* the exceptions a call ends its try block with, given the key
PageErrors ==
  IF Truthy(api_key)
  THEN CollaboratorErrors
         \cup {[class |-> "TypeError",
                message |-> "expected string or bytes-like object"]}
  ELSE {[class |-> "ValueError",
         message |-> "GROQ_API_KEY environment variable is not set"]}

\* time.strftime("%Y-%m-%d %H:%M:%S")
timestamp == "2026-11-05 12:00:00"

\* original_code is replaced and the suggestion is dropped
Replaced(text) ==
  [session_state EXCEPT !.original_code = text, !.improved_code = <<>>,
                        !.explanation = <<>>, !.diff_html = <<>>,
                        !.integrated = FALSE]

\* the lines after the two columns: the success banner is shown and the flag
\* is put back
Banner(s) == IF s.integrated THEN [s EXCEPT !.integrated = FALSE] ELSE s

InitApp ==
  /\ code = <<>>
  /\ prompt = ""
  /\ api_key \in ApiKeys
  /\ pc = "idle"
  /\ improved_code = <<>>
  /\ parts = <<>>
  /\ Fresh

pageVars ==
  <<concatVars, localVars, requests, response_text, analysis, analysis_text,
    suggestions, returned, raised, error>>

\* the user changes the text of the text area: the run sees
\* original_code != st.session_state.original_code
EditCode ==
  /\ pc = "idle"
  /\ \E text \in TypedCodes \cup {<<"CODE">>} :
       /\ text # session_state.original_code
       /\ session_state' = Banner(Replaced(text))
  /\ UNCHANGED <<callVars, pageVars, pc>>

\* the "Load Example" button
LoadExample ==
  /\ pc = "idle"
  /\ \E selected_example \in DOMAIN example_files :
       /\ selected_example # "None"
       /\ example_files[selected_example] # <<>>
       /\ session_state' = Banner(Replaced(example_files[selected_example]))
  /\ UNCHANGED <<callVars, pageVars, pc>>

\* what generate_code_suggestions(code', request) hands back: the tuple of
\* the except clause when the try block raised, else the extracted code and
\* explanation with their diff
CallResults ==
  {Degraded(e)' : e \in {x \in PageErrors : Catches(x)}}
    \cup (IF Truthy(api_key)
          THEN {LET extracted == extract_code_and_explanation(text)
                IN <<extracted[1], extracted[2],
                     generate_diff(code', extracted[1])>> :
                  text \in PageResponses}
          ELSE {})

\* the "Generate Improvements" button: with code and a request the call of
\* generate_code_suggestions is made, its tuple is stored and the page is run
\* again; without, an error is shown and nothing is stored
GenerateImprovements ==
  /\ pc = "idle"
  /\ \E request \in Prompts :
       IF session_state.original_code # <<>> /\ request # ""
       THEN /\ code' = session_state.original_code
            /\ prompt' = request
            /\ \E result \in CallResults :
                 session_state' =
                   [session_state EXCEPT
                      !.analysis_results = analyze_cpp_code(code'),
                      !.improved_code = result[1],
                      !.explanation = result[2],
                      !.diff_html = result[3],
                      !.integrated = FALSE]
            /\ pc' = "rerun"
       ELSE /\ session_state' = Banner(session_state)
            /\ UNCHANGED <<code, prompt, pc>>
  /\ UNCHANGED <<api_key, pageVars>>

\* integrate_code(): the suggestion is appended to the history and becomes
\* the original code
integrate_code(s) ==
  IF s.improved_code # <<>>
  THEN [s EXCEPT
          !.integration_history =
             Append(@, [timestamp |-> timestamp, original |-> s.original_code,
                        improved |-> s.improved_code,
                        explanation |-> s.explanation]),
          !.original_code = s.improved_code,
          !.integrated = TRUE]
  ELSE s

\* the "Integrate Code" button, shown while improved_code is not empty
IntegrateCode ==
  /\ pc = "idle"
  /\ session_state.improved_code # <<>>
  /\ Len(session_state.integration_history) < MaxHistory
  /\ session_state' = integrate_code(session_state)
  /\ pc' = "rerun"
  /\ UNCHANGED <<callVars, pageVars>>

\* a "Restore this version" button of the history
RestoreVersion ==
  /\ pc = "idle"
  /\ \E k \in 1..Len(session_state.integration_history) :
       LET entry == session_state.integration_history[k]
       IN session_state' = Replaced(entry.improved)
  /\ pc' = "rerun"
  /\ UNCHANGED <<callVars, pageVars>>

\* st.rerun(): the page runs once more with no button pressed and the text
\* area showing st.session_state.original_code
Rerun ==
  /\ pc = "rerun"
  /\ session_state' = Banner(session_state)
  /\ pc' = "idle"
  /\ UNCHANGED <<callVars, pageVars>>

NextApp ==
  \/ EditCode
  \/ LoadExample
  \/ GenerateImprovements
  \/ IntegrateCode
  \/ RestoreVersion
  \/ Rerun

SpecApp == InitApp /\ [][NextApp]_vars

\* ------------------------------------------------------------------ properties
ErrorIndicator == "Error generating suggestions: "

\* the call has ended in the except clause on an exception of the collaborator
CollaboratorFailed ==
  pc = "done" /\ error # <<>> /\ error[1] \in CollaboratorErrors

\* the result of the except clause: the original code, an error text, no diff
DegradedShape ==
  /\ Len(returned) = 3
  /\ returned[1] = code
  /\ Len(returned[2]) = 2
  /\ returned[2][1] = ErrorIndicator
  /\ returned[3] = <<>>

\* C1: when the completion call fails with an exception, the call returns the
\* original code, an explanation that holds the error indicator and the
\* message of the exception, and an empty diff; nothing is raised to the caller.
C1_CollaboratorFailureIsDegraded ==
  CollaboratorFailed =>
    /\ raised = <<>>
    /\ DegradedShape
    /\ returned[2][2] = error[1].message

C1_Witness ==
  /\ CollaboratorFailed
  /\ error[1].class = "RateLimitError"
  /\ code # <<>>
  /\ returned[1] = code

\* C2: a missing or empty GROQ_API_KEY is not answered with the degraded
\* result (original code, error text, empty diff) of a transport failure.
C2_ConfigErrorIsNotDegraded ==
  (pc = "done" /\ ~Truthy(api_key)) => ~DegradedShape

\* C3: the collaborator is requested at most once in a call, and never when
\* the credential is absent: the configuration error comes before any request.
C3_AtMostOneRequest ==
  /\ requests <= 1
  /\ ~Truthy(api_key) => requests = 0
  /\ (pc = "done" /\ ~Truthy(api_key)) =>
       (error # <<>> /\ error[1].class = "ValueError")

C3_Witness == CollaboratorFailed /\ requests = 1

\* the number of lines of a text split on newline
LineCount(text) == Cardinality({k \in 1..Len(text) : text[k] = NL}) + 1

CategorySet == {Categories[n] : n \in 1..Len(Categories)}

\* the line numbers never decrease along the findings
NonDecreasing(fs) ==
  \A k \in 1..(Len(fs) - 1) : fs[k].line <= fs[k + 1].line

Analyzed == pc \in {"analyzed", "formatted", "suggested"}

C6_KeysAndLineRange ==
  Analyzed =>
    /\ DOMAIN analysis = CategorySet
    /\ Cardinality(CategorySet) = 6
    /\ \A c \in CategorySet : \A k \in 1..Len(analysis[c]) :
         1 <= analysis[c][k].line /\ analysis[c][k].line <= LineCount(code)

C6_Witness ==
  /\ Analyzed
  /\ LineCount(code) >= 2
  /\ \E c \in CategorySet : \E k \in 1..Len(analysis[c]) :
       analysis[c][k].line = LineCount(code)
  /\ \E c \in CategorySet : \E k \in 1..Len(analysis[c]) :
       analysis[c][k].line = 1
  /\ \E c \in CategorySet : analysis[c] = <<>>

\* the texts of the heading lines, in the order of the text
Headings(text) ==
  LET h == SelectSeq(text, LAMBDA l : l.kind = "heading")
  IN [k \in 1..Len(h) |-> h[k].text]

\* the titles of the categories that have a finding, in declaration order
ExpectedHeadings ==
  LET c == SelectSeq(Categories, LAMBDA x : analysis[x] # <<>>)
  IN [k \in 1..Len(c) |-> Title(c[k])]

\* C9: the formatted text has a heading for a category exactly when the
\* category has a finding, the headings are in declaration order, and the
\* categories without a finding are still keys of the raw result.
C9_HeadingsOfNonEmptyCategories ==
  (pc \in {"formatted", "suggested"}) =>
    /\ Headings(analysis_text) = ExpectedHeadings
    /\ DOMAIN analysis = CategorySet
    /\ pc = "suggested" => Headings(suggestions) = ExpectedHeadings

C9_Witness ==
  /\ pc = "suggested"
  /\ Len(Headings(analysis_text)) = 2
  /\ analysis["performance_issues"] = <<>>
  /\ analysis["potential_bugs"] # <<>>

\* ---- concatenation
LookBackIssues ==
  {"Expensive sqrt operation in loop",
   "String operations in performance-critical code",
   "Potential null pointer dereference"}

\* the findings of the detectors that read one line alone
ContextFree(fs) == SelectSeq(fs, LAMBDA f : f.issue \notin LookBackIssues)

\* the findings with their line numbers moved down by n lines
Offset(fs, n) == [k \in 1..Len(fs) |-> [fs[k] EXCEPT !.line = @ + n]]

Count(fs, f) == Cardinality({k \in 1..Len(fs) : fs[k] = f})

\* the two lists hold the same findings, each as often
SameFindings(x, y) ==
  \A f \in {x[k] : k \in 1..Len(x)} \cup {y[k] : k \in 1..Len(y)} :
    Count(x, f) = Count(y, f)

\* C5 as stated: the analysis of A followed by B is, in every category, the
\* union of the findings of A and of the findings of B moved down by the
\* number of lines of A.
C5_ConcatenationIsUnion ==
  (pc = "whole") =>
    \A c \in CategorySet :
      SameFindings(analysis[c],
                   part_analysis[1][c]
                   \o Offset(part_analysis[2][c], LineCount(parts[1])))

\* C5, amended: on the lines of A the analysis of the whole is the analysis
\* of A, and for the detectors without a look-back window it is the union of
\* the findings of A and of the moved findings of B.
C5_ConcatenationOfContextFree ==
  (pc = "whole") =>
    \A c \in CategorySet :
      /\ SelectSeq(analysis[c], LAMBDA f : f.line <= LineCount(parts[1]))
           = part_analysis[1][c]
      /\ SameFindings(ContextFree(analysis[c]),
                      ContextFree(part_analysis[1][c])
                      \o Offset(ContextFree(part_analysis[2][c]),
                                LineCount(parts[1])))

\* A ends with `for` and `if`: the sqrt line of B gets a finding it has not
\* alone, its `->` line loses the finding it has alone
C5_Witness ==
  /\ pc = "whole"
  /\ \E k \in 1..Len(analysis["performance_issues"]) :
       LET f == analysis["performance_issues"][k] IN
       /\ f.line > LineCount(parts[1])
       /\ Count(Offset(part_analysis[2]["performance_issues"],
                       LineCount(parts[1])), f) = 0
  /\ \E k \in 1..Len(part_analysis[2]["potential_bugs"]) :
       Count(analysis["potential_bugs"],
             Offset(part_analysis[2]["potential_bugs"],
                    LineCount(parts[1]))[k]) = 0

\* ---- extraction
\* an opening cpp fence with three backquotes somewhere after it
Closable(r, i) == r[i] = OpenFence /\ \E j \in (i + 1)..Len(r) : IsFence(r[j])

HasCppBlock(r) == \E i \in 1..Len(r) : Closable(r, i)

\* the three backquotes that end the block opened at i
Closer(r, i) ==
  CHOOSE j \in (i + 1)..Len(r) :
    IsFence(r[j]) /\ \A k \in (i + 1)..(j - 1) : ~IsFence(r[k])

\* The blocks of a text, <<opening, closing>>: blocks that do not overlap,
\* such that every closable opening fence opens one or lies in one.
Blocks(r) ==
  CHOOSE M \in SUBSET {<<i, Closer(r, i)>> : i \in {x \in 1..Len(r) : Closable(r, x)}} :
    /\ \A b1 \in M : \A b2 \in M : b1 # b2 => (b1[2] < b2[1] \/ b2[2] < b1[1])
    /\ \A i \in 1..Len(r) :
         Closable(r, i) => \E b \in M : b[1] <= i /\ i <= b[2]

FirstBlock(r) == CHOOSE b \in Blocks(r) : \A c \in Blocks(r) : b[1] <= c[1]

BlockContent(r, b) == SubSeq(r, b[1] + 1, b[2] - 1)

Blank(s) == \A k \in 1..Len(s) : IsSpace(s[k])

\* the text without its blocks: of a block that the backquotes of a following
\* opening fence close, the rest of that fence is not part
WithoutBlocks(r) ==
  Flatten([k \in 1..Len(r) |->
    IF \E b \in Blocks(r) : b[1] <= k /\ k < b[2] THEN <<>>
    ELSE IF \E b \in Blocks(r) : k = b[2]
         THEN (IF r[k] = OpenFence THEN <<"cpp", NL>> ELSE <<>>)
    ELSE <<r[k]>>])

Succeeded == pc = "done" /\ error = <<>>

\* C7 as stated: a successful response that holds a cpp block gives a
\* non-empty improved code.
C7_BlockGivesCode ==
  (Succeeded /\ HasCppBlock(response_text)) => returned[1] # <<>>

\* C7, amended: the improved code returned is empty exactly when the
\* response holds no cpp block, or its first block holds nothing but
\* whitespace, or the call failed on an empty input code.
C7_EmptyCodeCases ==
  (pc = "done" /\ raised = <<>>) =>
    (returned[1] = <<>> <=>
       \/ error = <<>> /\ ~HasCppBlock(response_text)
       \/ /\ error = <<>>
          /\ HasCppBlock(response_text)
          /\ Blank(BlockContent(response_text, FirstBlock(response_text)))
       \/ error # <<>> /\ code = <<>>)

\* a response whose cpp block holds a newline alone
C7_Witness ==
  /\ Succeeded
  /\ HasCppBlock(response_text)
  /\ BlockContent(response_text, FirstBlock(response_text)) = <<NL>>
  /\ returned[1] = <<>>

\* C8: for a response with a cpp block, the improved code is the stripped
\* content of the first block, and the explanation is the stripped response
\* without any of its blocks: no block is left in it, and the text around the
\* blocks is kept.
C8_ExtractedCodeAndExplanation ==
  (pc \in {"diff", "done"} /\ error = <<>> /\ HasCppBlock(response_text)) =>
    /\ improved_code
         = Strip(BlockContent(response_text, FirstBlock(response_text)))
    /\ explanation = Strip(WithoutBlocks(response_text))
    /\ ~HasCppBlock(explanation)
    /\ pc = "done" => (returned[1] = improved_code /\ returned[2] = explanation)

\* text, a block, text, and a second block
C8_Witness ==
  /\ Succeeded
  /\ Cardinality(Blocks(response_text)) = 2
  /\ response_text[1] = "text"
  /\ returned[3] # <<>>
  /\ improved_code = <<"CODE">>
  /\ explanation = <<"text">>

\* ---- diff
\* a row of the table marks an addition or a removal
Marked(d) == \E k \in 1..Len(d) : d[k].tag \in {"add", "sub"}

\* C10: generate_diff gives an artifact for any two texts, and for two equal
\* texts one without an addition or removal marker.
C10_EqualTextsUnmarked ==
  (pc = "rendered") =>
    /\ Len(diff) >= 2
    /\ diff[1].tag = "header"
    /\ code = improved_code => ~Marked(diff)

C10_Witness ==
  /\ pc = "rendered"
  /\ code = improved_code
  /\ code # <<>>
  /\ code[Len(code)] = NL
  /\ ~Marked(diff)


\* ------------------------------------------------------------------ the look-back detectors
\* one of the (up to) n lines before lines[i] holds pat as part of its text
WindowHolds(lines, i, n, pat) ==
  \E k \in (Max(0, i - n) + 1)..i : Contains(lines[k], pat)

\* category c has a finding of that issue for line i + 1
Flagged(c, i, issue) ==
  \E k \in 1..Len(analysis[c]) :
    analysis[c][k].line = i + 1 /\ analysis[c][k].issue = issue

\* C11 as stated: a line that contains -> has a potential_bugs finding
\* "Potential null pointer dereference" if and only if none of the up to 3
\* lines before it contains if, nullptr or NULL as a substring, the window
\* being cut at the first line of the text.
C11_NullDerefIffNoGuardInWindow ==
  Analyzed =>
    LET lines == Split(code)
    IN \A i \in 0..(Len(lines) - 1) :
         Contains(lines[i + 1], "->") =>
           (Flagged("potential_bugs", i, "Potential null pointer dereference")
              <=> /\ ~WindowHolds(lines, i, NullWindow, "if")
                  /\ ~WindowHolds(lines, i, NullWindow, "nullptr")
                  /\ ~WindowHolds(lines, i, NullWindow, "NULL"))

\* C12 as stated: a line that contains sqrt has a performance_issues finding
\* "Expensive sqrt operation in loop" whenever one of the up to 5 lines before
\* it contains for or while as part of its text.
C12_SqrtFlaggedAfterLoopLine ==
  Analyzed =>
    LET lines == Split(code)
    IN \A i \in 0..(Len(lines) - 1) :
         (/\ Contains(lines[i + 1], "sqrt")
          /\ \/ WindowHolds(lines, i, SqrtWindow, "for")
             \/ WindowHolds(lines, i, SqrtWindow, "while"))
           => Flagged("performance_issues", i, "Expensive sqrt operation in loop")


\* the entry has the shape of a degraded failure result: the improved code
\* is the original code and the explanation is the error message
DegradedEntry(entry) ==
  /\ entry.improved = entry.original
  /\ Len(entry.explanation) >= 1
  /\ entry.explanation[1] = ErrorIndicator

\* C13 as stated: after any sequence of user actions (edit, load example,
\* generate, integrate, restore) no entry of integration_history records a
\* degraded failure result; every entry is the result of a successful
\* completion.
C13_HistoryHoldsNoDegradedResult ==
  \A k \in 1..Len(session_state.integration_history) :
    ~DegradedEntry(session_state.integration_history[k])

====
